---- MODULE Spec2Model ----
(***************************************************************************)
(* Model of the doc-verifier agent of skitz:                               *)
(*   agents/doc-verifier/shell_server.py  (the MCP tool server, call_tool) *)
(*   agents/doc-verifier/agent.py         (the agent's local tools)        *)
(* Texts are TLA+ strings, built exactly as the Python code builds them.   *)
(***************************************************************************)
EXTENDS Integers, Sequences, FiniteSets, TLC

VARIABLES
    fs,         \* host filesystem seen by shell_server.py: path -> node
    resources,  \* state of /skitz/internal/resources seen by agent.py
    op,         \* the last operation invoked, with its inputs
    result,     \* what that operation gave back to its caller
    spawned,    \* command lines handed to subprocess.run by the last operation
    fsReads,    \* paths the last operation touched on the filesystem
    loaded      \* names read_resource returned content for since the directory last changed

vars == <<fs, resources, op, result, spawned, fsReads, loaded>>

----------------------------------------------------------------------------
(* Python string primitives *)

\* The printable ASCII characters in code-point order: 32 (" ") to 95 ("_"),
\* and 97 ("a") to 126 ("~").
AsciiLow == " !\"#$%&'()*+,-./0123456789:;<=>?@ABCDEFGHIJKLMNOPQRSTUVWXYZ[\\]^_"
AsciiHigh == "abcdefghijklmnopqrstuvwxyz{|}~"

CharAt(s, i) == SubSeq(s, i, i)

\* ord(c) for a printable ASCII character
Ord(c) ==
    IF \E i \in 1..Len(AsciiLow) : CharAt(AsciiLow, i) = c
    THEN 31 + (CHOOSE i \in 1..Len(AsciiLow) : CharAt(AsciiLow, i) = c)
    ELSE 96 + (CHOOSE i \in 1..Len(AsciiHigh) : CharAt(AsciiHigh, i) = c)

\* s.endswith(p)
EndsWith(s, p) == Len(s) >= Len(p) /\ SubSeq(s, Len(s) - Len(p) + 1, Len(s)) = p

\* a < b as Python compares str: lexicographic by code point
StrLess(a, b) ==
    \E i \in 1..Len(b) :
        /\ i - 1 <= Len(a)
        /\ SubSeq(a, 1, i - 1) = SubSeq(b, 1, i - 1)
        /\ \/ Len(a) = i - 1
           \/ Len(a) >= i /\ Ord(CharAt(a, i)) < Ord(CharAt(b, i))

\* sorted(S) for a finite set of strings
RECURSIVE Sorted(_)
Sorted(S) ==
    IF S = {} THEN <<>>
    ELSE LET m == CHOOSE x \in S : \A y \in S \ {x} : StrLess(x, y)
         IN  <<m>> \o Sorted(S \ {m})

\* sep.join(parts)
RECURSIVE Join(_, _)
Join(sep, parts) ==
    IF Len(parts) = 0 THEN ""
    ELSE IF Len(parts) = 1 THEN parts[1]
    ELSE parts[1] \o sep \o Join(sep, Tail(parts))

\* d.get(key, default)
Get(d, key, default) == IF key \in DOMAIN d THEN d[key] ELSE default

NoArgs == [k \in {} |-> ""]

----------------------------------------------------------------------------
(* The host: processes and files *)

\* repr(s) of a str holding no quote and no backslash
Repr(s) == "'" \o s \o "'"

\* largest exit status of the enumerated processes
MaxReturnCode == 1

\* How long a spawned process runs, in seconds.
Durations == {5, 45, 150}

\* What "sh -c <command>" does on the host when it is spawned: the spawn itself
\* may fail (spawn is the errno name), else the process writes stdout and
\* stderr and exits with returncode after duration seconds.
ProcessBehaviours ==
    [spawn : {"ok"}, duration : Durations, returncode : 0..MaxReturnCode,
     stdout : {"", "usage: git\n"}, stderr : {"", "fatal: x\n"}]
    \cup
    [spawn : {"ENOENT", "EACCES"}, duration : {5}, returncode : {0},
     stdout : {""}, stderr : {""}]

\* str(e) of the OSError Popen raises when "sh" cannot be started
SpawnErrorText(errno) ==
    IF errno = "ENOENT" THEN "[Errno 2] No such file or directory: 'sh'"
    ELSE "[Errno 13] Permission denied: 'sh'"

\* subprocess.run(["sh", "-c", command], capture_output=True, text=True,
\* timeout=timeout): a CompletedProcess, or the exception raised. A
\* TimeoutExpired carries the output captured so far in its stdout and stderr
\* attributes; its str() is "Command '<cmd>' timed out after <t> seconds".
subprocess_run(command, timeout, host) ==
    IF host.spawn # "ok"
    THEN [exc |-> "OSError", str |-> SpawnErrorText(host.spawn),
          returncode |-> 0, stdout |-> "", stderr |-> ""]
    ELSE IF host.duration > timeout
    THEN [exc |-> "TimeoutExpired",
          str |-> "Command '[" \o Repr("sh") \o ", " \o Repr("-c") \o ", "
                    \o Repr(command) \o "]' timed out after "
                    \o ToString(timeout) \o " seconds",
          returncode |-> 0, stdout |-> host.stdout, stderr |-> host.stderr]
    ELSE [exc |-> "none", str |-> "", returncode |-> host.returncode,
          stdout |-> host.stdout, stderr |-> host.stderr]

\* A node of the filesystem.
Absent == [type |-> "absent", readable |-> FALSE, content |-> "", entries |-> {}]
File(content, readable) ==
    [type |-> "file", readable |-> readable, content |-> content, entries |-> {}]
Dir(entries, readable) ==
    [type |-> "dir", readable |-> readable, content |-> "", entries |-> entries]

Lookup(fsx, path) == IF path \in DOMAIN fsx THEN fsx[path] ELSE Absent

\* os.path.exists(path)
os_path_exists(fsx, path) == Lookup(fsx, path).type # "absent"

\* os.listdir(directory): the entry names, or the OSError raised
os_listdir(fsx, directory) ==
    LET n == Lookup(fsx, directory) IN
    IF n.type = "absent"
    THEN [exc |-> "FileNotFoundError", entries |-> {},
          str |-> "[Errno 2] No such file or directory: " \o Repr(directory)]
    ELSE IF n.type = "file"
    THEN [exc |-> "NotADirectoryError", entries |-> {},
          str |-> "[Errno 20] Not a directory: " \o Repr(directory)]
    ELSE IF ~n.readable
    THEN [exc |-> "PermissionError", entries |-> {},
          str |-> "[Errno 13] Permission denied: " \o Repr(directory)]
    ELSE [exc |-> "none", entries |-> n.entries, str |-> ""]

\* open(path, "r").read(): the content, or the OSError raised
open_read(fsx, path) ==
    LET n == Lookup(fsx, path) IN
    IF n.type = "absent"
    THEN [exc |-> "FileNotFoundError", content |-> "",
          str |-> "[Errno 2] No such file or directory: " \o Repr(path)]
    ELSE IF n.type = "dir"
    THEN [exc |-> "IsADirectoryError", content |-> "",
          str |-> "[Errno 21] Is a directory: " \o Repr(path)]
    ELSE IF ~n.readable
    THEN [exc |-> "PermissionError", content |-> "",
          str |-> "[Errno 13] Permission denied: " \o Repr(path)]
    ELSE [exc |-> "none", content |-> n.content, str |-> ""]

----------------------------------------------------------------------------
(* shell_server.py *)

\* What an operation gives back to its caller: a returned text, or an
\* exception that left the function.
Returned(text) == [kind |-> "text", text |-> text]
Raised(text) == [kind |-> "raise", text |-> text]

\* The outcome of one operation: its result, the command lines it handed to
\* subprocess.run and the paths it listed or opened.
Outcome(res, cmds, paths) == [result |-> res, spawned |-> cmds, reads |-> paths]

\* list_tools(): the advertised operations
ToolNames == {"run_command", "list_files", "read_file", "setup_environment"}

\* list_tools(): the parameter each inputSchema lists under "required"
RequiredParam(name) ==
    CASE name = "run_command" -> "command"
      [] name = "list_files" -> "directory"
      [] name = "read_file" -> "path"
      [] name = "setup_environment" -> "command"

\* timeout= of the two subprocess.run calls of call_tool
StandardTimeout == 30
SetupTimeout == 120

\* run_command: f"Exit Code: {result.returncode}\nOutput:\n{result.stdout}",
\* then "\nSTDERR:\n{result.stderr}" when result.stderr is not empty
RunCommandOutput(r) ==
    LET output == "Exit Code: " \o ToString(r.returncode) \o "\nOutput:\n" \o r.stdout
    IN  IF r.stderr # "" THEN output \o "\nSTDERR:\n" \o r.stderr ELSE output

\* Mutant: the run_command branch without its "except Exception" clause.
RunCommandExcept_Propagates(r) ==
    IF r.exc = "TimeoutExpired"
    THEN Returned("Error: Command timed out after 30 seconds")
    ELSE Raised(r.str)

\* the except clauses of the run_command branch
RunCommandExcept(r) ==
    IF r.exc = "TimeoutExpired"
    THEN Returned("Error: Command timed out after 30 seconds")
    ELSE Returned("Error executing command: " \o r.str)

\* Mutant: the setup_environment branch leaves stderr out of its output.
SetupOutput_NoStderr(r) ==
    "Exit Code: " \o ToString(r.returncode) \o "\nOutput:\n" \o r.stdout

\* setup_environment: f"Exit Code: {result.returncode}\nOutput:\n{result.stdout}",
\* then "\nSTDERR:\n{result.stderr}" when result.stderr is not empty
SetupOutput(r) ==
    LET output == "Exit Code: " \o ToString(r.returncode) \o "\nOutput:\n" \o r.stdout
    IN  IF r.stderr # "" THEN output \o "\nSTDERR:\n" \o r.stderr ELSE output

\* Mutant: the setup_environment branch without its "except
\* subprocess.TimeoutExpired" clause.
SetupExcept_NoTimeoutClause(r) == Returned("Error executing setup: " \o r.str)

\* the except clauses of the setup_environment branch
SetupExcept(r) ==
    IF r.exc = "TimeoutExpired"
    THEN Returned("Error: Setup command timed out after 120 seconds")
    ELSE Returned("Error executing setup: " \o r.str)

\* call_tool, name == "run_command"
run_command(arguments, host) ==
    LET command == Get(arguments, "command", "")
        r == subprocess_run(command, StandardTimeout, host)
    IN  Outcome(IF r.exc = "none" THEN Returned(RunCommandOutput(r)) ELSE RunCommandExcept(r),
                {command}, {})

\* the except clause of the list_files branch
ListFilesExcept(r) == Returned("Error listing directory: " \o r.str)

\* Mutant: an empty listing is returned as the empty text.
ListingText_NoPlaceholder(files) == Join("\n", Sorted(files))

\* result = "\n".join(sorted(files)); result if result else "(empty directory)"
ListingText(files) ==
    LET text == Join("\n", Sorted(files))
    IN  IF text # "" THEN text ELSE "(empty directory)"

\* Mutant: list_files without its os.path.exists check.
list_files_NoExistsCheck(arguments, fsx) ==
    LET directory == Get(arguments, "directory", ".")
        r == os_listdir(fsx, directory)
    IN  Outcome(IF r.exc # "none" THEN ListFilesExcept(r)
                ELSE Returned(ListingText(r.entries)),
                {}, {directory})

\* call_tool, name == "list_files"
list_files(arguments, fsx) ==
    LET directory == Get(arguments, "directory", ".") IN
    IF ~os_path_exists(fsx, directory)
    THEN Outcome(Returned("Error: Directory not found: " \o directory), {}, {})
    ELSE LET r == os_listdir(fsx, directory)
         IN  Outcome(IF r.exc # "none" THEN ListFilesExcept(r)
                     ELSE Returned(ListingText(r.entries)),
                     {}, {directory})

\* the except clause of the read_file branch
ReadFileExcept(r) == Returned("Error reading file: " \o r.str)

\* call_tool, name == "read_file"
read_file(arguments, fsx) ==
    LET path == Get(arguments, "path", "") IN
    IF ~os_path_exists(fsx, path)
    THEN Outcome(Returned("Error: File not found: " \o path), {}, {})
    ELSE LET r == open_read(fsx, path)
         IN  Outcome(IF r.exc # "none" THEN ReadFileExcept(r) ELSE Returned(r.content),
                     {}, {path})

\* call_tool, name == "setup_environment"
setup_environment(arguments, host) ==
    LET command == Get(arguments, "command", "")
        r == subprocess_run(command, SetupTimeout, host)
    IN  Outcome(IF r.exc = "none" THEN Returned(SetupOutput(r)) ELSE SetupExcept(r),
                {command}, {})

\* call_tool, the else branch
unknown_tool(name) == Outcome(Returned("Unknown tool: " \o name), {}, {})

\* call_tool(name, arguments) on a host whose filesystem is fsx and where the
\* spawned process behaves as host
call_tool(name, arguments, fsx, host) ==
    IF name = "run_command" THEN run_command(arguments, host)
    ELSE IF name = "list_files" THEN list_files(arguments, fsx)
    ELSE IF name = "read_file" THEN read_file(arguments, fsx)
    ELSE IF name = "setup_environment" THEN setup_environment(arguments, host)
    ELSE unknown_tool(name)

----------------------------------------------------------------------------
(* agent.py *)

\* timeout= of run_shell_command's subprocess.run
AgentTimeout == 30

\* Mutant: the STDERR segment is added whether or not stderr is empty.
JoinParts_AlwaysStderr(r) ==
    Join("\n", <<"Exit Code: " \o ToString(r.returncode), "Output:", r.stdout,
                 "STDERR:", r.stderr>>)

\* "\n".join(parts), parts being the exit code line, "Output:", stdout and,
\* when stderr is not empty, "STDERR:" and stderr
JoinParts(r) ==
    LET parts == <<"Exit Code: " \o ToString(r.returncode), "Output:", r.stdout>>
    IN  Join("\n", IF r.stderr # "" THEN parts \o <<"STDERR:", r.stderr>> ELSE parts)

\* the except clause of run_shell_command
RunShellExcept(r) == Returned("Error executing command: " \o r.str)

\* run_shell_command(command)
run_shell_command(command, host) ==
    LET r == subprocess_run(command, AgentTimeout, host)
    IN  Outcome(IF r.exc = "none" THEN Returned(JoinParts(r)) ELSE RunShellExcept(r),
                {command}, {})

\* resources_dir of list_resources, and the directory of read_resource's filepath
ResourcesDir == "/skitz/internal/resources"

\* The files that may lie in the resources directory, and the README.md at
\* the root of the mounted repository, two directories up.
ResourceNames == {"kubectl.md", "git.md", "notes.txt"}
ParentFile == "../../README.md"

\* the text of the file a name of the resources directory leads to
ContentOf(filename) == "# " \o filename \o "\n"

\* The filesystem under /skitz as agent.py sees it: res.mounted says whether
\* the resources directory exists, res.listable whether it can be listed,
\* res.entries which files it holds.
ResourceFs(res) ==
    [p \in {ResourcesDir} \cup {ResourcesDir \o "/" \o n : n \in ResourceNames \cup {ParentFile}} |->
        IF ~res.mounted THEN Absent
        ELSE IF p = ResourcesDir THEN Dir(res.entries, res.listable)
        ELSE IF \E n \in res.entries \cup {ParentFile} : p = ResourcesDir \o "/" \o n
        THEN File(ContentOf(CHOOSE n \in res.entries \cup {ParentFile} :
                                p = ResourcesDir \o "/" \o n), TRUE)
        ELSE Absent]

\* list_resources()
list_resources(res) ==
    LET fsx == ResourceFs(res) IN
    IF ~os_path_exists(fsx, ResourcesDir)
    THEN Outcome(Returned("Resources directory not found. Ensure /skitz is mounted."), {}, {})
    ELSE LET r == os_listdir(fsx, ResourcesDir)
             files == {f \in r.entries : EndsWith(f, ".md")}
         IN  Outcome(IF r.exc # "none" THEN Returned("Error listing resources: " \o r.str)
                     ELSE Returned(Join("\n", Sorted(files))),
                     {}, {ResourcesDir})

\* read_resource(filename)
read_resource(filename, res) ==
    LET filepath == ResourcesDir \o "/" \o filename
        r == open_read(ResourceFs(res), filepath)
    IN  Outcome(IF r.exc # "none"
                THEN Returned("Error reading " \o filename \o ": " \o r.str)
                ELSE Returned(r.content),
                {}, {filepath})

\* SAFETY RULES of the verifier's instructions: the destructive commands
Denylist == {"rm", "delete", "drop", "truncate", "destroy"}

----------------------------------------------------------------------------
(* The state machine *)

Commands == {"git --help", "rm -rf /tmp/x"}

Paths == {"/tmp/x"}

\* The argument mappings of a call: empty, or one parameter.
ArgMaps ==
    {NoArgs} \cup {("command" :> c) : c \in Commands}
             \cup {("directory" :> p) : p \in Paths}
             \cup {("path" :> p) : p \in Paths}

\* The names a caller may ask for: the advertised ones and one that is not.
CallNames == ToolNames \cup {"delete_file"}

\* The process behaviour when no process is spawned.
NoProcess == [spawn |-> "ok", duration |-> 5, returncode |-> 0, stdout |-> "", stderr |-> ""]

Listing == {"b.txt", "a.md", "Z.md"}

\* What /tmp/x may be, and what the working directory may be.
Nodes ==
    {Absent, File("", TRUE), File("hello\n", TRUE), File("hello\n", FALSE),
     Dir({}, TRUE), Dir(Listing, TRUE), Dir(Listing, FALSE)}
CwdNodes == {Dir({}, TRUE), Dir(Listing, TRUE)}

ResourceStates ==
    {[mounted |-> FALSE, listable |-> FALSE, entries |-> {}]}
    \cup [mounted : {TRUE}, listable : BOOLEAN, entries : SUBSET ResourceNames]

Filenames == ResourceNames \cup {ParentFile}

NoOp == [fn |-> "none", name |-> "", arguments |-> NoArgs, host |-> NoProcess]
NoResult == [kind |-> "none", text |-> ""]

Init ==
    /\ fs = [p \in Paths \cup {"."} |-> IF p = "." THEN Dir(Listing, TRUE) ELSE Absent]
    /\ resources = [mounted |-> TRUE, listable |-> TRUE, entries |-> {"git.md", "kubectl.md"}]
    /\ op = NoOp
    /\ result = NoResult
    /\ spawned = {}
    /\ fsReads = {}
    /\ loaded = {}

\* A client of the server calls a tool.
CallTool ==
    \E name \in CallNames, arguments \in ArgMaps :
    \E host \in IF name \in {"run_command", "setup_environment"}
                THEN ProcessBehaviours ELSE {NoProcess} :
        LET o == call_tool(name, arguments, fs, host) IN
        /\ op' = [fn |-> "call_tool", name |-> name, arguments |-> arguments, host |-> host]
        /\ result' = o.result
        /\ spawned' = o.spawned
        /\ fsReads' = o.reads
        /\ UNCHANGED <<fs, resources, loaded>>

\* The agent calls its run_shell_command tool.
RunShellCommand ==
    \E command \in Commands, host \in ProcessBehaviours :
        LET o == run_shell_command(command, host) IN
        /\ op' = [fn |-> "run_shell_command", name |-> "",
                  arguments |-> ("command" :> command), host |-> host]
        /\ result' = o.result
        /\ spawned' = o.spawned
        /\ fsReads' = o.reads
        /\ UNCHANGED <<fs, resources, loaded>>

\* The host filesystem changes between two calls; op is the last operation
\* made on the filesystem as it is now.
HostChange ==
    \E p \in DOMAIN fs, n \in Nodes \cup CwdNodes :
        /\ n \in (IF p = "." THEN CwdNodes ELSE Nodes)
        /\ n # fs[p]
        /\ fs' = [fs EXCEPT ![p] = n]
        /\ op' = NoOp
        /\ result' = NoResult
        /\ spawned' = {}
        /\ fsReads' = {}
        /\ UNCHANGED <<resources, loaded>>

\* The agent calls its read_resource tool.
ReadResource ==
    \E filename \in Filenames :
        LET o == read_resource(filename, resources) IN
        /\ op' = [fn |-> "read_resource", name |-> "",
                  arguments |-> ("filename" :> filename), host |-> NoProcess]
        /\ result' = o.result
        /\ spawned' = o.spawned
        /\ fsReads' = o.reads
        /\ loaded' = IF o.result.text = ContentOf(filename)
                     THEN loaded \cup {filename} ELSE loaded
        /\ UNCHANGED <<fs, resources>>

\* The agent calls its list_resources tool.
ListResources ==
    LET o == list_resources(resources) IN
    /\ op' = [fn |-> "list_resources", name |-> "", arguments |-> NoArgs, host |-> NoProcess]
    /\ result' = o.result
    /\ spawned' = o.spawned
    /\ fsReads' = o.reads
    /\ UNCHANGED <<fs, resources, loaded>>

\* The resources directory changes between two calls.
ResourceChange ==
    \E r \in ResourceStates :
        /\ r # resources
        /\ resources' = r
        /\ loaded' = {}
        /\ op' = NoOp
        /\ result' = NoResult
        /\ spawned' = {}
        /\ fsReads' = {}
        /\ UNCHANGED fs

\* The tool server and the agent's shell tool on a changing host.
Next == CallTool \/ RunShellCommand \/ HostChange
Spec == Init /\ [][Next]_vars

\* The agent's resource tools on a changing resources directory.
NextLoader == ReadResource \/ ListResources \/ ResourceChange
SpecLoader == Init /\ [][NextLoader]_vars

----------------------------------------------------------------------------
(* Properties *)

\* s.startswith(p)
StartsWith(s, p) == Len(s) >= Len(p) /\ SubSeq(s, 1, Len(p)) = p

\* sub in s
Contains(s, sub) ==
    \E i \in 1..(Len(s) - Len(sub) + 1) : SubSeq(s, i, i + Len(sub) - 1) = sub

\* text.split("\n") as a set of lines
RECURSIVE SplitLines(_)
SplitLines(text) ==
    IF \E i \in 1..Len(text) : CharAt(text, i) = "\n"
    THEN LET i == CHOOSE j \in 1..Len(text) :
                      /\ CharAt(text, j) = "\n"
                      /\ \A k \in 1..(j - 1) : CharAt(text, k) # "\n"
         IN  {SubSeq(text, 1, i - 1)} \cup SplitLines(SubSeq(text, i + 1, Len(text)))
    ELSE {text}

\* The last operation handed a command line to subprocess.run.
IsExecOp ==
    \/ op.fn = "run_shell_command"
    \/ op.fn = "call_tool" /\ op.name \in {"run_command", "setup_environment"}

\* The timeout the last operation ran its command under.
TimeoutOf ==
    IF op.fn = "call_tool" /\ op.name = "setup_environment" THEN SetupTimeout
    ELSE IF op.fn = "call_tool" THEN StandardTimeout
    ELSE AgentTimeout

SpawnFailed == IsExecOp /\ op.host.spawn # "ok"
TimedOut == IsExecOp /\ op.host.spawn = "ok" /\ op.host.duration > TimeoutOf
Completed == IsExecOp /\ op.host.spawn = "ok" /\ op.host.duration <= TimeoutOf

\* The command the last operation ran.
CommandOf == Get(op.arguments, "command", "")

\* The payload of a completed execution, as the interface states it.
ExecPayload(h) ==
    "Exit Code: " \o ToString(h.returncode) \o "\nOutput:\n" \o h.stdout
        \o (IF h.stderr # "" THEN "\nSTDERR:\n" \o h.stderr ELSE "")

\* The characters of a word (\w)
WordChars ==
    LET w == "abcdefghijklmnopqrstuvwxyzABCDEFGHIJKLMNOPQRSTUVWXYZ0123456789_"
    IN  {CharAt(w, i) : i \in 1..Len(w)}

\* The whole words of a command: its maximal runs of word characters.
RECURSIVE WordsFrom(_, _, _)
WordsFrom(s, i, cur) ==
    IF i > Len(s) THEN (IF cur = "" THEN {} ELSE {cur})
    ELSE IF CharAt(s, i) \in WordChars THEN WordsFrom(s, i + 1, cur \o CharAt(s, i))
    ELSE (IF cur = "" THEN {} ELSE {cur}) \cup WordsFrom(s, i + 1, "")

Words(s) == WordsFrom(s, 1, "")

\* The safety rules mark a command UNSAFE when it holds a denylisted token as
\* a whole word.
MarkedUnsafe(command) == Words(command) \cap Denylist # {}

\* C1: no command the safety rules mark UNSAFE (a denylisted token as a whole
\* word) is ever handed to subprocess execution, by run_shell_command or by
\* the run_command and setup_environment branches of call_tool.
C1_UnsafeNeverSpawned == \A c \in spawned : ~MarkedUnsafe(c)

\* C2: a call naming an unknown operation, or lacking the parameter the
\* operation's schema requires, gets an error result, and no command is
\* executed and no file or directory is read.
InvalidCall ==
    /\ op.fn = "call_tool"
    /\ \/ op.name \notin ToolNames
       \/ RequiredParam(op.name) \notin DOMAIN op.arguments
C2_InvalidCallRejected ==
    InvalidCall =>
        /\ result.kind = "text"
        /\ StartsWith(result.text, "Error") \/ StartsWith(result.text, "Unknown tool: ")
        /\ spawned = {}
        /\ fsReads = {}

\* C3: call_tool and run_shell_command always return a text and never let an
\* exception reach the caller, whatever the operation name, the arguments and
\* the outcome of the host action; a spawn failure is returned as an error
\* text carrying the OS error text.
C3_NoExceptionEscapes ==
    op.fn \in {"call_tool", "run_shell_command"} =>
        /\ result.kind = "text"
        /\ SpawnFailed =>
              /\ StartsWith(result.text, "Error")
              /\ EndsWith(result.text, SpawnErrorText(op.host.spawn))
C3_Witness ==
    /\ op.fn = "call_tool" /\ op.name = "setup_environment"
    /\ op.host.spawn = "EACCES"
    /\ result = Returned("Error executing setup: [Errno 13] Permission denied: 'sh'")

\* The text the last operation would have returned had its process behaved as h.
TextUnder(h) ==
    IF op.fn = "call_tool" THEN call_tool(op.name, op.arguments, fs, h).result.text
    ELSE run_shell_command(CommandOf, h).result.text

\* C4 as stated: an execution that exceeds its timeout returns a result that
\* differs from every Completed and ExecError result and carries the stdout
\* and stderr the command produced before the deadline.
C4_TimedOutCarriesOutput ==
    TimedOut =>
        /\ \A h \in ProcessBehaviours :
              (h.spawn # "ok" \/ h.duration <= TimeoutOf) => TextUnder(h) # result.text
        /\ Contains(result.text, op.host.stdout)
        /\ Contains(result.text, op.host.stderr)

\* C4 as amended: an execution that exceeds its timeout returns a text that
\* names the timeout and differs from every Completed and ExecError text of
\* the same call, and that carries none of the output produced before the
\* deadline: the fixed messages of call_tool, and for run_shell_command the
\* generic error prefix followed by the exception's message.
C4_TimedOutFixedText ==
    TimedOut =>
        /\ result.kind = "text"
        /\ result.text =
              IF op.fn = "run_shell_command"
              THEN "Error executing command: Command '['sh', '-c', '" \o CommandOf
                       \o "']' timed out after 30 seconds"
              ELSE IF op.name = "run_command"
              THEN "Error: Command timed out after 30 seconds"
              ELSE "Error: Setup command timed out after 120 seconds"
        /\ \A h \in ProcessBehaviours :
              (h.spawn # "ok" \/ h.duration <= TimeoutOf) => TextUnder(h) # result.text
        /\ op.host.stdout # "" => ~Contains(result.text, op.host.stdout)
        /\ op.host.stderr # "" => ~Contains(result.text, op.host.stderr)
C4_Witness ==
    /\ op.fn = "call_tool" /\ op.name = "setup_environment"
    /\ op.host.duration > SetupTimeout
    /\ op.host.stdout # "" /\ op.host.stderr # ""
    /\ result.text = "Error: Setup command timed out after 120 seconds"

\* a and b are the same text up to the timeout value written in them
SameUpToTimeout(a, b) ==
    \E i \in 0..Len(a) :
        LET pre == SubSeq(a, 1, i)
            suf == SubSeq(a, i + Len(ToString(StandardTimeout)) + 1, Len(a))
        IN  /\ a = pre \o ToString(StandardTimeout) \o suf
            /\ b = pre \o ToString(SetupTimeout) \o suf

\* The result of the last call made under the other execution operation.
OtherName == IF op.name = "run_command" THEN "setup_environment" ELSE "run_command"
OtherResult == call_tool(OtherName, op.arguments, fs, op.host).result

IsToolExec == op.fn = "call_tool" /\ op.name \in {"run_command", "setup_environment"}

\* C5 as stated: run_command and setup_environment return the same result
\* for every command and every outcome within both timeouts (completed, or
\* spawn error), and the same result up to the timeout value when both time
\* out.
C5_SameExceptTimeout ==
    IsToolExec =>
        /\ (op.host.spawn # "ok" \/ op.host.duration <= StandardTimeout)
              => result = OtherResult
        /\ (op.host.spawn = "ok" /\ op.host.duration > SetupTimeout /\ op.name = "run_command")
              => SameUpToTimeout(result.text, OtherResult.text)

\* C5 as amended: the two operations return the same result for every
\* command and every outcome that completes within both timeouts; after a
\* spawn error they return the same OS error text behind different prefixes,
\* and when both time out they return different fixed messages.
C5_SameWhenCompleted ==
    IsToolExec =>
        LET mine == IF op.name = "run_command" THEN result ELSE OtherResult
            setup == IF op.name = "run_command" THEN OtherResult ELSE result
        IN  /\ (op.host.spawn = "ok" /\ op.host.duration <= StandardTimeout)
                  => mine = setup /\ mine = Returned(ExecPayload(op.host))
            /\ op.host.spawn # "ok"
                  => /\ mine = Returned("Error executing command: " \o SpawnErrorText(op.host.spawn))
                     /\ setup = Returned("Error executing setup: " \o SpawnErrorText(op.host.spawn))
            /\ (op.host.spawn = "ok" /\ op.host.duration > SetupTimeout)
                  => /\ mine = Returned("Error: Command timed out after 30 seconds")
                     /\ setup = Returned("Error: Setup command timed out after 120 seconds")
C5_Witness ==
    /\ op.fn = "call_tool" /\ op.name = "run_command"
    /\ op.host.spawn = "ok" /\ op.host.duration <= StandardTimeout
    /\ op.host.returncode = 1 /\ op.host.stderr # "" /\ op.host.stdout # ""
    /\ result = OtherResult

\* The directory or path the last file operation acted on.
DirectoryOf == Get(op.arguments, "directory", ".")
PathOf == Get(op.arguments, "path", "")

IsToolCall(name) == op.fn = "call_tool" /\ op.name = name

\* The last call completed an execution operation: its payload is the exit
\* code and output, with the STDERR segment iff stderr is not empty.
ExecShape == IsToolExec /\ Completed /\ result.text = ExecPayload(op.host)

\* The last call was a read_file that succeeded: its payload is the content.
ReadShape ==
    /\ IsToolCall("read_file")
    /\ Lookup(fs, PathOf).type = "file" /\ Lookup(fs, PathOf).readable
    /\ result.text = Lookup(fs, PathOf).content

\* The last call was a list_files that succeeded.
Listed ==
    /\ IsToolCall("list_files")
    /\ Lookup(fs, DirectoryOf).type = "dir" /\ Lookup(fs, DirectoryOf).readable

\* Its payload is the raw listing: the sorted entry names, one a line.
ListShape == Listed /\ result.text = Join("\n", Sorted(Lookup(fs, DirectoryOf).entries))

\* C6 as stated: every payload of call_tool is the execution shape, the raw
\* content of a read, or an error string that begins with "Error:".
C6_ThreeShapes ==
    op.fn = "call_tool" =>
        /\ result.kind = "text"
        /\ ExecShape \/ ReadShape \/ ListShape \/ StartsWith(result.text, "Error:")

\* C6 as amended: every payload of call_tool is the execution shape, the raw
\* content of a read ("(empty directory)" standing for an empty listing), an
\* error string that begins with "Error: " for a missing path or a timeout,
\* an error string that begins with "Error executing command: ", "Error
\* executing setup: ", "Error listing directory: " or "Error reading file: "
\* for an exception of the host action, or "Unknown tool: <name>" for an
\* unknown operation name.
C6_PayloadShapes ==
    op.fn = "call_tool" =>
        /\ result.kind = "text"
        /\ \/ ExecShape
           \/ ReadShape
           \/ ListShape /\ Lookup(fs, DirectoryOf).entries # {}
           \/ Listed /\ Lookup(fs, DirectoryOf).entries = {}
                 /\ result.text = "(empty directory)"
           \/ IsToolExec /\ TimedOut /\ StartsWith(result.text, "Error: ")
           \/ IsToolCall("list_files") /\ Lookup(fs, DirectoryOf).type = "absent"
                 /\ StartsWith(result.text, "Error: ")
           \/ IsToolCall("read_file") /\ Lookup(fs, PathOf).type = "absent"
                 /\ StartsWith(result.text, "Error: ")
           \/ SpawnFailed /\ IsToolCall("run_command")
                 /\ StartsWith(result.text, "Error executing command: ")
           \/ SpawnFailed /\ IsToolCall("setup_environment")
                 /\ StartsWith(result.text, "Error executing setup: ")
           \/ IsToolCall("list_files") /\ Lookup(fs, DirectoryOf).type # "absent"
                 /\ ~Listed /\ StartsWith(result.text, "Error listing directory: ")
           \/ IsToolCall("read_file") /\ Lookup(fs, PathOf).type # "absent"
                 /\ ~ReadShape /\ StartsWith(result.text, "Error reading file: ")
           \/ op.name \notin ToolNames /\ result.text = "Unknown tool: " \o op.name
C6_Witness ==
    /\ IsToolCall("list_files") /\ "directory" \in DOMAIN op.arguments
    /\ Lookup(fs, DirectoryOf) = Dir({}, TRUE)
    /\ result.text = "(empty directory)"

\* C7: list_files on a directory that does not exist, and read_file on a path
\* that does not exist, return a text tagged not found that names the path,
\* and read nothing.
C7_NotFound ==
    /\ (IsToolCall("list_files") /\ ~os_path_exists(fs, DirectoryOf))
          => /\ result = Returned("Error: Directory not found: " \o DirectoryOf)
             /\ fsReads = {}
    /\ (IsToolCall("read_file") /\ ~os_path_exists(fs, PathOf))
          => /\ result = Returned("Error: File not found: " \o PathOf)
             /\ fsReads = {}
C7_Witness ==
    /\ IsToolCall("list_files") /\ op.arguments = ("directory" :> "/tmp/x")
    /\ fs["/tmp/x"] = Absent
    /\ result.text = "Error: Directory not found: /tmp/x"

\* C9: every name read_resource returned content for is in the listing a
\* following list_resources returns for the unchanged directory.
C9_LoadThenList ==
    op.fn = "list_resources" => \A n \in loaded : n \in SplitLines(result.text)

\* C10 as stated: run_shell_command returns the text call_tool returns for
\* run_command, for every command and every outcome: completed, timed out or
\* spawn error.
C10_SameText ==
    op.fn = "run_shell_command" =>
        result.text = call_tool("run_command", op.arguments, fs, op.host).result.text

\* C10 as amended: run_shell_command returns the text call_tool returns for
\* run_command for every command and every outcome that completes within 30
\* seconds or fails to spawn; on a timeout run_shell_command returns "Error
\* executing command: " and the exception's message, naming the command
\* line, where call_tool returns "Error: Command timed out after 30 seconds".
C10_SameTextUnlessTimedOut ==
    op.fn = "run_shell_command" =>
        LET other == call_tool("run_command", op.arguments, fs, op.host).result IN
        /\ result.kind = "text" /\ other.kind = "text"
        /\ ~TimedOut => result.text = other.text
        /\ Completed => result.text = ExecPayload(op.host)
        /\ TimedOut =>
              /\ result.text = "Error executing command: Command '['sh', '-c', '"
                                   \o CommandOf \o "']' timed out after 30 seconds"
              /\ other.text = "Error: Command timed out after 30 seconds"
C10_Witness ==
    /\ op.fn = "run_shell_command" /\ CommandOf = "git --help"
    /\ Completed /\ op.host.returncode = 1
    /\ op.host.stdout # "" /\ op.host.stderr # ""
    /\ result.text = "Exit Code: 1\nOutput:\nusage: git\n\nSTDERR:\nfatal: x\n"

====
